---- MODULE Spec2Model ----
(***************************************************************************)
(* Model of the incremental asset packer (artushak-web-assets).            *)
(*                                                                         *)
(* The file system is one map from absolute, lexically resolved paths to   *)
(* file contents.  A path is a sequence of string components; an absolute  *)
(* path starts with the component "/".  File contents are sequences of     *)
(* tokens.  The manifest file and the cache manifest file are kept as      *)
(* in-memory values (their JSON encoding is not modelled).                 *)
(*                                                                         *)
(* pack is one atomic action: the engine is single-threaded and owns the   *)
(* directories for the duration of a call.  The recursion                  *)
(* process -> update -> create -> process is modelled by mutually          *)
(* recursive operators that thread the engine state                        *)
(*   S = [map, fs, uuid, trace, created].                                  *)
(***************************************************************************)
EXTENDS Integers, Sequences, FiniteSets, TLC

VARIABLES
    fs,             \* file system: absolute path -> contents
    manifest_file,  \* the manifest pack will load
    cache_file,     \* persisted cache manifest: <<>> (no file) or <<map>>
    uuid_count,     \* number of UUIDs minted so far
    created,        \* every successful create so far: seq of [name, path]
    run,            \* what the last pack did (fresh = no edit since)
    last_end,       \* snapshot taken at the end of the last pack
    packs,          \* number of pack calls so far
    edits,          \* number of outside changes so far
    disturbed       \* what has happened so far of: a file of the internal
                    \* directory deleted from outside ("internal"), one of
                    \* the target directory ("target"), a pack failed
                    \* ("failed")

vars == <<fs, manifest_file, cache_file, uuid_count, created, run, last_end,
          packs, edits, disturbed>>

\* ---------------------------------------------------------------- bounds

\* pack calls in one behaviour.
MaxPacks == 3

\* Changes made from outside the engine (source edits, manifest edits,
\* deleted files) in one behaviour.
MaxEdits == 2

\* Nested calls of process the stack of the host holds: the recursion has
\* no bound of its own, and one call more overflows the stack.
MaxDepth == 5

\* ---------------------------------------------------------- configuration

target_directory_path == <<"/", "target">>
internal_directory_path == <<"/", "internal">>
source_directory_path == <<"/", "source">>

\* ------------------------------------------------------- Option<T> values

None == <<>>
Some(x) == <<x>>
IsSome(o) == o # <<>>
Unwrap(o) == o[1]

\* ------------------------------------------------------------------ paths

RECURSIVE IsPrefix(_, _)
IsPrefix(p, q) ==
    IF p = <<>> THEN TRUE
    ELSE IF q = <<>> THEN FALSE
    ELSE Head(p) = Head(q) /\ IsPrefix(Tail(p), Tail(q))

has_root(p) == p # <<>> /\ p[1] = "/"

\* Path::join: an absolute right-hand side replaces the left-hand side.
join(base, rel) == IF has_root(rel) THEN rel ELSE base \o rel

Front(s) == SubSeq(s, 1, Len(s) - 1)

\* What the operating system does with "." and ".." when it opens a path
\* (no symbolic links): ".." of the root is the root.
RECURSIVE Resolve(_, _)
Resolve(done, rest) ==
    IF rest = <<>> THEN done
    ELSE IF Head(rest) = "." THEN Resolve(done, Tail(rest))
    ELSE IF Head(rest) = ".."
         THEN Resolve(IF Len(done) > 1 THEN Front(done) ELSE done, Tail(rest))
    ELSE Resolve(Append(done, Head(rest)), Tail(rest))

FsKey(full) == Resolve(<<>>, full)

exists(f, full) == FsKey(full) \in DOMAIN f
read(f, full) == f[FsKey(full)]
write(f, full, bytes) ==
    [k \in DOMAIN f \cup {FsKey(full)} |->
        IF k = FsKey(full) THEN bytes ELSE f[k]]
remove_file(f, full) == [k \in DOMAIN f \ {FsKey(full)} |-> f[k]]

\* std::fs::copy of an existing file: the destination is opened with
\* truncation after the source has been opened, so a copy of a file onto
\* itself leaves it empty.
copy(f, from, to) ==
    IF FsKey(from) = FsKey(to) THEN write(f, to, <<>>)
    ELSE write(f, to, read(f, from))

\* The files below a directory, keyed by their path relative to it.
FilesIn(f, dir) == {k \in DOMAIN f : IsPrefix(dir, k)}
DirContents(f, dir) == [k \in FilesIn(f, dir) |-> f[k]]

\* --------------------------------------------------------------- hashing

\* blake3::hash, idealised as collision free.
blake3(bytes) == <<"blake3", bytes>>

\* ------------------------------------------------ output path allocation

\* The working directory of the process (path_dedot resolves leading dots
\* against it).
current_dir == <<"/", "cwd">>

\* Asset names that contain a dot after their first character, with the
\* part before their last dot.  Strings are opaque to TLC, so the split is
\* tabulated for the names the manifests below use.
DotStem == [n \in {"app.min", "app.max"} |-> "app"]

Uuid_to_string(u) == ToString(u)

\* Uuid::new_v4(): a value never returned before.
new_v4(count) == count + 1

\* Path::with_extension applied to the file name name + "-" + uuid: the
\* text after the last dot of the file name is replaced by the extension.
\* The UUID text has no dot, so the last dot, if any, is the name's.
with_extension(name, uuid, extension) ==
    LET file == name \o "-" \o Uuid_to_string(uuid)
        stem == IF name \in DOMAIN DotStem THEN DotStem[name] ELSE file
    IN IF extension = "" THEN stem ELSE stem \o "." \o extension

output_path_of(data, name, uuid) ==
    IF IsSome(data.output_base_path)
    THEN join(Unwrap(data.output_base_path),
              <<with_extension(name, uuid, data.extension)>>)
    ELSE <<with_extension(name, uuid, data.extension)>>

\* path_dedot::ParseDot::parse_dot: a leading "." is replaced by the
\* working directory, a leading ".." by its parent; a later ".." removes
\* the component before it (never the root, nothing when there is none).
RECURSIVE parse_dot_rest(_, _, _)
parse_dot_rest(tokens, rest, first_is_root) ==
    IF rest = <<>> THEN tokens
    ELSE IF Head(rest) = "." THEN parse_dot_rest(tokens, Tail(rest), first_is_root)
    ELSE IF Head(rest) = ".."
         THEN parse_dot_rest(
                IF Len(tokens) > 0 /\ (Len(tokens) # 1 \/ ~first_is_root)
                THEN Front(tokens) ELSE tokens,
                Tail(rest), first_is_root)
    ELSE parse_dot_rest(Append(tokens, Head(rest)), Tail(rest), first_is_root)

parse_dot(p) ==
    IF p = <<>> THEN p
    ELSE IF Head(p) = "/" THEN parse_dot_rest(<<"/">>, Tail(p), TRUE)
    ELSE IF Head(p) = "." THEN parse_dot_rest(current_dir, Tail(p), TRUE)
    ELSE IF Head(p) = ".." THEN parse_dot_rest(Front(current_dir), Tail(p), TRUE)
    ELSE parse_dot_rest(<<Head(p)>>, Tail(p), FALSE)

starts_with(p, prefix) == IsPrefix(prefix, p)

\* The path-safety test of create and process_public_assets.
path_rejected(p) == has_root(p) \/ starts_with(parse_dot(p), <<"..">>)

\* ------------------------------------------------------------- manifests

NoOptions == {}

File(path) ==
    [kind |-> "File", path |-> path,
     filter_name |-> "", input_names |-> <<>>, options |-> NoOptions]

Filtered(filter_name, input_names, options) ==
    [kind |-> "Filtered", path |-> <<>>,
     filter_name |-> filter_name, input_names |-> input_names,
     options |-> options]

AssetData(output_base_path, extension, source) ==
    [output_base_path |-> output_base_path, extension |-> extension,
     source |-> source]

AssetManifest(assets, public_assets) ==
    [assets |-> assets, public_assets |-> public_assets]

Bang == {<<"additional_text", <<"String", "!">>>>}

a_data == AssetData(None, "txt", File(<<"a.txt">>))
b_data == AssetData(None, "txt", File(<<"b.txt">>))
mid_data == AssetData(None, "txt", Filtered("TestCat", <<"a">>, NoOptions))
side_data == AssetData(None, "txt", Filtered("TestCat", <<"a">>, NoOptions))

\* Scenario F: mid = Cat[a], out = Cat[mid, b], public [out].
ChainManifest ==
    AssetManifest(
        [n \in {"a", "b", "mid", "out"} |->
            CASE n = "a" -> a_data
              [] n = "b" -> b_data
              [] n = "mid" -> mid_data
              [] n = "out" -> AssetData(Some(<<"out_text">>), "txt",
                                  Filtered("TestCat", <<"mid", "b">>, Bang))],
        <<"out">>)

\* A diamond: out = Cat[mid, side], both built from a; b is unrelated.
DiamondManifest ==
    AssetManifest(
        [n \in {"a", "b", "mid", "side", "out"} |->
            CASE n = "a" -> a_data
              [] n = "b" -> b_data
              [] n = "mid" -> mid_data
              [] n = "side" -> side_data
              [] n = "out" -> AssetData(Some(<<"out_text">>), "txt",
                                  Filtered("TestCat", <<"mid", "side">>, Bang))],
        <<"out", "b">>)

\* An asset whose name contains a dot.
DottedManifest ==
    AssetManifest(
        [n \in {"a", "app.min"} |->
            CASE n = "a" -> a_data
              [] n = "app.min" -> AssetData(None, "js",
                                  Filtered("TestCat", <<"a">>, NoOptions))],
        <<"app.min">>)

\* test_invalid: out names the input c, which the manifest does not define.
InvalidManifest ==
    AssetManifest(
        [n \in {"a", "b", "out"} |->
            CASE n = "a" -> a_data
              [] n = "b" -> b_data
              [] n = "out" -> AssetData(Some(<<"out_text">>), "txt",
                                  Filtered("TestCat", <<"a", "b", "c">>, Bang))],
        <<"out">>)

\* The chain of scenario F with the definition of mid removed: out is as
\* in ChainManifest and still names mid.
DanglingManifest ==
    AssetManifest(
        [n \in {"a", "b", "out"} |-> ChainManifest.assets[n]],
        <<"out">>)

\* out names a filter the registry does not hold.
UnknownFilterManifest ==
    AssetManifest(
        [n \in {"a", "out"} |->
            CASE n = "a" -> a_data
              [] n = "out" -> AssetData(None, "txt",
                                  Filtered("Nope", <<"a">>, NoOptions))],
        <<"out">>)

\* out is built by the filter that fails.
FailingFilterManifest ==
    AssetManifest(
        [n \in {"a", "out"} |->
            CASE n = "a" -> a_data
              [] n = "out" -> AssetData(None, "txt",
                                  Filtered("TestFail", <<"a">>, NoOptions))],
        <<"out">>)

\* Scenario E: output_base_path = "../evil".
EscapeManifest ==
    AssetManifest(
        [n \in {"a", "out"} |->
            CASE n = "a" -> a_data
              [] n = "out" -> AssetData(Some(<<"..", "evil">>), "txt",
                                  Filtered("TestCat", <<"a">>, NoOptions))],
        <<"out">>)

\* Two dotted names with the same part before their last dot and the same
\* extension, one of them the input of a third asset.
TwinManifest ==
    AssetManifest(
        [n \in {"a", "app.min", "app.max", "top"} |->
            CASE n = "a" -> a_data
              [] n = "app.min" -> AssetData(None, "js",
                                  Filtered("TestCat", <<"a">>, NoOptions))
              [] n = "app.max" -> AssetData(None, "js", File(<<"b.txt">>))
              [] n = "top" -> AssetData(None, "txt",
                                  Filtered("TestCat", <<"app.min">>, NoOptions))],
        <<"app.min", "app.max", "top">>)

\* The same after an edit: "app.max" gets another extension.
TwinEditedManifest ==
    AssetManifest(
        [n \in {"a", "app.min", "app.max", "top"} |->
            IF n = "app.max" THEN AssetData(None, "css", File(<<"b.txt">>))
            ELSE TwinManifest.assets[n]],
        <<"app.min", "app.max", "top">>)

\* The chain of scenario F with mid built from out: mid and out are each
\* other's input.
CyclicManifest ==
    AssetManifest(
        [n \in {"a", "b", "mid", "out"} |->
            IF n = "mid"
            THEN AssetData(None, "txt", Filtered("TestCat", <<"out">>, NoOptions))
            ELSE ChainManifest.assets[n]],
        <<"out">>)

Manifests ==
    {ChainManifest, DiamondManifest, DottedManifest, InvalidManifest,
     DanglingManifest, UnknownFilterManifest, FailingFilterManifest,
     EscapeManifest, TwinManifest, TwinEditedManifest, CyclicManifest}

\* The edits of the manifest: the two manifests with twin names are edited
\* into each other, every other manifest into every other one.
TwinManifests == {TwinManifest, TwinEditedManifest}
ManifestEdits(m) ==
    IF m \in TwinManifests THEN TwinManifests \ {m}
    ELSE Manifests \ (TwinManifests \cup {m})

\* The contents a source file may have.
SourceBytes ==
    [f \in {<<"a.txt">>, <<"b.txt">>} |->
        IF f = <<"a.txt">> THEN {<<"alpha">>, <<"gamma">>}
        ELSE {<<"beta">>, <<"delta">>}]

\* -------------------------------------------------------- filter registry

\* The result of a filter: Ok(()) or Err(error), and the file system it
\* leaves behind.
FilterOk(f) == [ok |-> TRUE, fs |-> f, kind |-> ""]
FilterErr(f, kind) == [ok |-> FALSE, fs |-> f, kind |-> kind]

\* TestCatFilter::process_asset_file: create the output file, append every
\* input in order, then the additional_text option when it is a String.
RECURSIVE TestCat_copy(_, _, _, _)
TestCat_copy(f, input_file_paths, i, output_file_path) ==
    IF i > Len(input_file_paths) THEN FilterOk(f)
    ELSE IF ~exists(f, input_file_paths[i]) THEN FilterErr(f, "IOError")
    ELSE TestCat_copy(
            write(f, output_file_path,
                  read(f, output_file_path) \o read(f, input_file_paths[i])),
            input_file_paths, i + 1, output_file_path)

TestCat(f, input_file_paths, output_file_path, options) ==
    LET texts == {o[2][2] : o \in {x \in options :
                        x[1] = "additional_text" /\ x[2][1] = "String"}}
        r == TestCat_copy(write(f, output_file_path, <<>>),
                          input_file_paths, 1, output_file_path)
    IN IF ~r.ok \/ texts = {} THEN r
       ELSE FilterOk(write(r.fs, output_file_path,
                     Append(read(r.fs, output_file_path),
                            CHOOSE t \in texts : TRUE)))

\* A filter of the host whose process_asset_file returns its own error E
\* (converted to FilterError) without touching a file.
TestFail(f, input_file_paths, output_file_path, options) ==
    FilterErr(f, "FilterError")

\* The registry the host passes to pack: filter name -> filter.
filters == {"TestCat", "TestFail"}

\* AssetFilter::process_asset_file of the filter registered as filter_name.
filter_process_asset_file(f, filter_name, input_file_paths, output_file_path, options) ==
    IF filter_name = "TestCat"
    THEN TestCat(f, input_file_paths, output_file_path, options)
    ELSE TestFail(f, input_file_paths, output_file_path, options)

\* AssetFilterRegistry::process_asset_file: None for an unregistered name,
\* otherwise the filter's own result.
process_asset_file(f, filter_name, input_file_paths, output_file_path, options) ==
    IF filter_name \notin filters THEN None
    ELSE Some(filter_process_asset_file(f, filter_name, input_file_paths,
                                        output_file_path, options))

\* ---------------------------------------------------------------- engine

\* The state a pack call works on: the cache map, the file system, the
\* UUID counter, and two logs (the events of this call, and every
\* successful create so far).
Event(ev, name, path, changed, inputs) ==
    [ev |-> ev, name |-> name, path |-> path, changed |-> changed,
     inputs |-> inputs, entry |-> None, held |-> None, at |-> None]

\* The event of a call of process or of its return: entry is the entry
\* returned (None for a call), held is what the map holds for name then,
\* at is the map and the file system at that moment.
ProcessEvent(ev, name, changed, entry, S) ==
    [ev |-> ev, name |-> name,
     path |-> IF IsSome(entry) THEN Unwrap(entry).path ELSE <<>>,
     changed |-> changed, inputs |-> <<>>, entry |-> entry,
     held |-> IF name \in DOMAIN S.map THEN Some(S.map[name]) ELSE None,
     at |-> Some([map |-> S.map, fs |-> S.fs])]

\* The event of a filter invocation: at is the map and the file system the
\* filter was invoked on, changed tells whether it returned Ok.
FilterEvent(name, output_full_path, ok, input_full_paths, S) ==
    [Event("filter", name, output_full_path, ok, input_full_paths)
        EXCEPT !.at = Some([map |-> S.map, fs |-> S.fs])]

Log(S, e) == [S EXCEPT !.trace = Append(@, e)]

Ok(S, val) == [ok |-> TRUE, S |-> S, val |-> val]
Err(S, kind, name, path) ==
    [ok |-> FALSE, S |-> S, err |-> [kind |-> kind, name |-> name, path |-> path]]

\* Mutant: the entry does not keep the name it was created for.
AssetCacheEntry_unnamed(name, data, path, file_hash) ==
    [name |-> "", data |-> data, path |-> path, file_hash |-> file_hash]

AssetCacheEntry(name, data, path, file_hash) ==
    [name |-> name, data |-> data, path |-> path, file_hash |-> file_hash]

\* Mutant: the insertion forgets the other entries.
insert_alone(map, name, entry) ==
    [k \in {name} |-> entry]

insert(map, name, entry) ==
    [k \in DOMAIN map \cup {name} |-> IF k = name THEN entry ELSE map[k]]

\* Each operator below uses the result of a nested call through a
\* parameter, so that every nested call is written (and evaluated) once.

RECURSIVE create(_, _, _)
RECURSIVE create_at(_, _, _, _, _)
RECURSIVE create_inputs(_, _, _, _, _)
RECURSIVE create_inputs_next(_, _, _, _, _)
RECURSIVE update(_, _, _)
RECURSIVE need_update(_, _, _)
RECURSIVE update_inputs(_, _, _, _)
RECURSIVE update_inputs_next(_, _, _, _)
RECURSIVE rebuild(_, _, _)
RECURSIVE process(_, _, _)

\* create: the entry it returns, with the bookkeeping of the logs.
created_entry(name, data, output_path, file_hash, S) ==
    Ok([Log(S, Event("create", name, output_path, TRUE, <<>>))
            EXCEPT !.created = Append(@, [name |-> name, path |-> output_path])],
       AssetCacheEntry(name, data, output_path, file_hash))

\* Mutant: the copy is not hashed.
create_file_unhashed(name, data, output_path, output_full_path, source_full_path, S) ==
    IF ~exists(S.fs, source_full_path)
    THEN Err(S, "IOError", name, source_full_path)
    ELSE created_entry(name, data, output_path, None,
            [S EXCEPT !.fs = copy(@, source_full_path, output_full_path)])

\* create, File source: copy the source file, hash the copy.
create_file(name, data, output_path, output_full_path, source_full_path, S) ==
    IF ~exists(S.fs, source_full_path)
    THEN Err(S, "IOError", name, source_full_path)
    ELSE created_entry(name, data, output_path,
            Some(blake3(read(copy(S.fs, source_full_path, output_full_path),
                             output_full_path))),
            [S EXCEPT !.fs = copy(@, source_full_path, output_full_path)])

\* Mutant: a missing filter is reported as an error of the filter.
create_filtered_result_missing_as_filter_error(name, data, output_path, output_full_path, S, input_full_paths, fr) ==
    IF fr = None
    THEN Err(S, "FilterError", data.source.filter_name, <<>>)
    ELSE IF ~Unwrap(fr).ok
    THEN Err([Log(S, FilterEvent(name, output_full_path, FALSE,
                                 input_full_paths, S))
                EXCEPT !.fs = Unwrap(fr).fs],
             Unwrap(fr).kind, name, output_full_path)
    ELSE created_entry(name, data, output_path, None,
            [Log(S, FilterEvent(name, output_full_path, TRUE,
                                input_full_paths, S))
                EXCEPT !.fs = Unwrap(fr).fs])

\* create, Filtered source, once the registry has answered with fr.
create_filtered_result(name, data, output_path, output_full_path, S, input_full_paths, fr) ==
    IF fr = None
    THEN Err(S, "AssetFilterNotFoundError", data.source.filter_name, <<>>)
    ELSE IF ~Unwrap(fr).ok
    THEN Err([Log(S, FilterEvent(name, output_full_path, FALSE,
                                 input_full_paths, S))
                EXCEPT !.fs = Unwrap(fr).fs],
             Unwrap(fr).kind, name, output_full_path)
    ELSE created_entry(name, data, output_path, None,
            [Log(S, FilterEvent(name, output_full_path, TRUE,
                                input_full_paths, S))
                EXCEPT !.fs = Unwrap(fr).fs])

\* create, Filtered source, once the inputs have been processed (r).
create_filtered(name, data, output_path, output_full_path, r) ==
    IF ~r.ok THEN r
    ELSE create_filtered_result(name, data, output_path, output_full_path,
            r.S, r.val,
            process_asset_file(r.S.fs, data.source.filter_name, r.val,
                               output_full_path, data.source.options))

\* Mutant: a Filtered asset is processed as an input of itself.
create_at_self_input(name, data, output_path, manifest, S) ==
    IF path_rejected(output_path)
    THEN Err(S, "AssetPathError", name, output_path)
    ELSE IF data.source.kind = "File"
    THEN create_file(name, data, output_path,
            join(internal_directory_path, output_path),
            join(source_directory_path, data.source.path), S)
    ELSE create_filtered(name, data, output_path,
            join(internal_directory_path, output_path),
            create_inputs(Append(data.source.input_names, name), 1,
                          manifest, S, <<>>))

\* create, once the data is resolved and the output path allocated.
create_at(name, data, output_path, manifest, S) ==
    IF path_rejected(output_path)
    THEN Err(S, "AssetPathError", name, output_path)
    ELSE IF data.source.kind = "File"
    THEN create_file(name, data, output_path,
            join(internal_directory_path, output_path),
            join(source_directory_path, data.source.path), S)
    ELSE create_filtered(name, data, output_path,
            join(internal_directory_path, output_path),
            create_inputs(data.source.input_names, 1, manifest, S, <<>>))

\* Mutant: the error for an absent name does not carry the name.
create_absent_name_dropped(name, manifest, S) ==
    IF name \notin DOMAIN manifest.assets
    THEN Err(S, "AssetNotFoundInManifestError", "", <<>>)
    ELSE create_at(name, manifest.assets[name],
            output_path_of(manifest.assets[name], name, new_v4(S.uuid)),
            manifest, [S EXCEPT !.uuid = new_v4(@)])

\* AssetCacheEntry::create.
create(name, manifest, S) ==
    IF name \notin DOMAIN manifest.assets
    THEN Err(S, "AssetNotFoundInManifestError", name, <<>>)
    ELSE create_at(name, manifest.assets[name],
            output_path_of(manifest.assets[name], name, new_v4(S.uuid)),
            manifest, [S EXCEPT !.uuid = new_v4(@)])

\* The loop of create over input_names: process every input in order and
\* collect the full paths handed to the filter.
create_inputs(input_names, i, manifest, S, input_full_paths) ==
    IF i > Len(input_names) THEN Ok(S, input_full_paths)
    ELSE create_inputs_next(input_names, i, manifest, input_full_paths,
            process(input_names[i], manifest, S))

\* Mutant: the path of an input is put in front of the earlier ones.
create_inputs_next_prepended(input_names, i, manifest, input_full_paths, r) ==
    IF ~r.ok THEN r
    ELSE create_inputs(input_names, i + 1, manifest, r.S,
            <<join(internal_directory_path, r.val.entry.path)>>
                \o input_full_paths)

\* Mutant: the path of an input is not joined to the internal directory.
create_inputs_next_unjoined(input_names, i, manifest, input_full_paths, r) ==
    IF ~r.ok THEN r
    ELSE create_inputs(input_names, i + 1, manifest, r.S,
            Append(input_full_paths, r.val.entry.path))

create_inputs_next(input_names, i, manifest, input_full_paths, r) ==
    IF ~r.ok THEN r
    ELSE create_inputs(input_names, i + 1, manifest, r.S,
            Append(input_full_paths,
                   join(internal_directory_path, r.val.entry.path)))

\* Mutant: the stored hash is never found equal.
need_update_file_hash_ignored(self, source_full_path, S) ==
    IF ~exists(S.fs, source_full_path)
    THEN Err(S, "IOError", self.name, source_full_path)
    ELSE Ok(S, TRUE)

\* update, File source: compare the source file's hash with the entry's.
need_update_file(self, source_full_path, S) ==
    IF ~exists(S.fs, source_full_path)
    THEN Err(S, "IOError", self.name, source_full_path)
    ELSE Ok(S, IF IsSome(self.file_hash)
               THEN blake3(read(S.fs, source_full_path)) # Unwrap(self.file_hash)
               ELSE TRUE)

\* Mutant: the negation of full_path.exists() is lost.
need_update_exists_inverted(self, manifest, S) ==
    IF manifest.assets[self.name] # self.data
       \/ exists(S.fs, join(internal_directory_path, self.path))
    THEN Ok(S, TRUE)
    ELSE IF self.data.source.kind = "File"
    THEN need_update_file(self,
            join(source_directory_path, self.data.source.path), S)
    ELSE update_inputs(self.data.source.input_names, 1, manifest, S)

\* Mutant: the data of the entry is not compared with the manifest.
need_update_data_ignored(self, manifest, S) ==
    IF ~exists(S.fs, join(internal_directory_path, self.path))
    THEN Ok(S, TRUE)
    ELSE IF self.data.source.kind = "File"
    THEN need_update_file(self,
            join(source_directory_path, self.data.source.path), S)
    ELSE update_inputs(self.data.source.input_names, 1, manifest, S)

\* Mutant: a missing internal file does not make the entry stale.
need_update_missing_file_ignored(self, manifest, S) ==
    IF manifest.assets[self.name] # self.data
    THEN Ok(S, TRUE)
    ELSE IF self.data.source.kind = "File"
    THEN need_update_file(self,
            join(source_directory_path, self.data.source.path), S)
    ELSE update_inputs(self.data.source.input_names, 1, manifest, S)

\* update: the value of need_update.
need_update(self, manifest, S) ==
    IF manifest.assets[self.name] # self.data
       \/ ~exists(S.fs, join(internal_directory_path, self.path))
    THEN Ok(S, TRUE)
    ELSE IF self.data.source.kind = "File"
    THEN need_update_file(self,
            join(source_directory_path, self.data.source.path), S)
    ELSE update_inputs(self.data.source.input_names, 1, manifest, S)

\* The loop of update over input_names: stop at the first changed input.
update_inputs(input_names, i, manifest, S) ==
    IF i > Len(input_names) THEN Ok(S, FALSE)
    ELSE update_inputs_next(input_names, i, manifest,
            process(input_names[i], manifest, S))

\* Mutant: an input counts as changed whatever process reported.
update_inputs_next_flag_ignored(input_names, i, manifest, r) ==
    IF ~r.ok THEN r
    ELSE Ok(r.S, TRUE)

\* Mutant: a changed input does not make the entry stale.
update_inputs_next_flag_dropped(input_names, i, manifest, r) ==
    IF ~r.ok THEN r
    ELSE update_inputs(input_names, i + 1, manifest, r.S)

\* Mutant: the loop goes on after a changed input.
update_inputs_next_no_break(input_names, i, manifest, r) ==
    IF ~r.ok THEN r
    ELSE IF r.val.changed
    THEN [update_inputs(input_names, i + 1, manifest, r.S) EXCEPT !.val = TRUE]
    ELSE update_inputs(input_names, i + 1, manifest, r.S)

update_inputs_next(input_names, i, manifest, r) ==
    IF ~r.ok THEN r
    ELSE IF r.val.changed THEN Ok(r.S, TRUE)
    ELSE update_inputs(input_names, i + 1, manifest, r.S)

remove_if_exists(f, full) == IF exists(f, full) THEN remove_file(f, full) ELSE f

\* Mutant: the old target file is left behind.
remove_old_internal_only(f, path) ==
    remove_if_exists(f, join(internal_directory_path, path))

\* update, need_update branch: the old internal and target files go.
remove_old(f, path) ==
    remove_if_exists(
        remove_if_exists(f, join(internal_directory_path, path)),
        join(target_directory_path, path))

\* update, need_update branch: what it returns once create has returned r.
rebuilt(self, r) ==
    IF ~r.ok THEN r
    ELSE Ok(Log(r.S, Event("rebuild", self.name, self.path, TRUE, <<>>)),
            Some(r.val))

\* update, need_update branch.
rebuild(self, manifest, S) ==
    rebuilt(self,
        create(self.name, manifest, [S EXCEPT !.fs = remove_old(@, self.path)]))

\* update, once need_update is known (nu).
update_decided(self, manifest, nu) ==
    IF ~nu.ok THEN nu
    ELSE IF nu.val THEN rebuild(self, manifest, nu.S)
    ELSE Ok(nu.S, None)

\* AssetCacheEntry::update; the result value is None or Some(new entry).
update(self, manifest, S) ==
    IF self.name \notin DOMAIN manifest.assets
    THEN Err(S, "AssetNotFoundInManifestError", self.name, <<>>)
    ELSE update_decided(self, manifest, need_update(self, manifest, S))

\* process: its successful return.
process_ret(name, entry, changed, S) ==
    Ok(Log(S, ProcessEvent("process_ret", name, changed, Some(entry), S)),
       [entry |-> entry, changed |-> changed])

\* Mutant: the new entry is returned but not put into the map.
process_updated_not_installed(name, cache_entry, r) ==
    IF ~r.ok THEN r
    ELSE IF IsSome(r.val)
    THEN process_ret(name, Unwrap(r.val), TRUE, r.S)
    ELSE process_ret(name, cache_entry, FALSE, r.S)

\* process, name in the map, once update has returned r.
process_updated(name, cache_entry, r) ==
    IF ~r.ok THEN r
    ELSE IF IsSome(r.val)
    THEN process_ret(name, Unwrap(r.val), TRUE,
            [r.S EXCEPT !.map = insert(@, name, Unwrap(r.val))])
    ELSE process_ret(name, cache_entry, FALSE, r.S)

\* Mutant: a failed create leaves an incomplete entry in the map.
process_created_incomplete_installed(name, r) ==
    IF ~r.ok
    THEN [r EXCEPT !.S.map =
            insert(@, name,
                   AssetCacheEntry(name, AssetData(None, "", File(<<>>)),
                                   <<>>, None))]
    ELSE process_ret(name, r.val, TRUE,
            [r.S EXCEPT !.map = insert(@, name, r.val)])

\* process, name not in the map, once create has returned r.
process_created(name, r) ==
    IF ~r.ok THEN r
    ELSE process_ret(name, r.val, TRUE,
            [r.S EXCEPT !.map = insert(@, name, r.val)])

\* The calls of process that have not returned, in a log of events.
StackDepth(trace) ==
    Cardinality({j \in DOMAIN trace : trace[j].ev = "process_call"})
        - Cardinality({j \in DOMAIN trace : trace[j].ev = "process_ret"})

\* AssetCacheManifestV1::process; the result value is [entry, changed].
\* A call the stack has no room for ends the program: the model passes it
\* up as the result StackOverflow, which no caller handles.
process(name, manifest, S) ==
    IF StackDepth(S.trace) >= MaxDepth
    THEN Err(S, "StackOverflow", name, <<>>)
    ELSE IF name \in DOMAIN S.map
    THEN process_updated(name, S.map[name],
            update(S.map[name], manifest,
                   Log(S, ProcessEvent("process_call", name, FALSE, None, S))))
    ELSE process_created(name,
            create(name, manifest,
                   Log(S, ProcessEvent("process_call", name, FALSE, None, S))))

RECURSIVE process_public_assets(_, _, _)

\* Mutant: the copy is made only for an asset that changed.
publish_when_changed(manifest, i, asset_name, r) ==
    IF ~r.ok THEN r
    ELSE IF path_rejected(r.val.entry.path)
    THEN Err(r.S, "AssetPathError", asset_name, r.val.entry.path)
    ELSE IF ~r.val.changed
    THEN process_public_assets(manifest, i + 1,
            Log(r.S, Event("publish", asset_name, r.val.entry.path,
                           FALSE, <<>>)))
    ELSE IF ~exists(r.S.fs, join(internal_directory_path, r.val.entry.path))
    THEN Err(r.S, "IOError", asset_name,
             join(internal_directory_path, r.val.entry.path))
    ELSE process_public_assets(manifest, i + 1,
            Log([r.S EXCEPT !.fs =
                    copy(@, join(internal_directory_path, r.val.entry.path),
                         join(target_directory_path, r.val.entry.path))],
                Event("publish", asset_name, r.val.entry.path,
                      r.val.changed, <<>>)))

\* process_public_assets: the copy into the target directory, once process
\* has returned r.
publish(manifest, i, asset_name, r) ==
    IF ~r.ok THEN r
    ELSE IF path_rejected(r.val.entry.path)
    THEN Err(r.S, "AssetPathError", asset_name, r.val.entry.path)
    ELSE IF ~exists(r.S.fs, join(internal_directory_path, r.val.entry.path))
    THEN Err(r.S, "IOError", asset_name,
             join(internal_directory_path, r.val.entry.path))
    ELSE process_public_assets(manifest, i + 1,
            Log([r.S EXCEPT !.fs =
                    copy(@, join(internal_directory_path, r.val.entry.path),
                         join(target_directory_path, r.val.entry.path))],
                Event("publish", asset_name, r.val.entry.path,
                      r.val.changed, <<>>)))

\* AssetCacheManifestV1::process_public_assets, from the i-th public asset.
process_public_assets(manifest, i, S) ==
    IF i > Len(manifest.public_assets) THEN Ok(S, TRUE)
    ELSE publish(manifest, i, manifest.public_assets[i],
            process(manifest.public_assets[i], manifest, S))

\* The empty cache map (AssetCacheManifestV1::default).
EmptyMap == [k \in {} |-> 0]

\* load_cache_manifest / the loading part of pack.
load_cache_manifest(file) == IF IsSome(file) THEN Unwrap(file) ELSE EmptyMap

\* pack, up to and including process_public_assets.
pack_result ==
    process_public_assets(manifest_file, 1,
        [map |-> load_cache_manifest(cache_file), fs |-> fs,
         uuid |-> uuid_count, trace |-> <<>>, created |-> created])

\* ------------------------------------------------------- state machine

Snap(f, m, c) == [fs |-> f, manifest |-> m, cache |-> c]

EmptyFs == [k \in {} |-> <<>>]

NoErr == [kind |-> "", name |-> "", path |-> <<>>]

NoRun ==
    [fresh |-> FALSE, ok |-> FALSE, err |-> NoErr, trace |-> <<>>,
     map |-> EmptyMap,
     start |-> Snap(EmptyFs, ChainManifest, None), prev_end |-> None]

\* The source files of the tests, no cache, empty internal and target
\* directories; any of the manifests.
Init ==
    /\ fs = [k \in {join(source_directory_path, <<"a.txt">>),
                    join(source_directory_path, <<"b.txt">>)} |->
                IF k = join(source_directory_path, <<"a.txt">>)
                THEN <<"alpha">> ELSE <<"beta">>]
    /\ manifest_file \in Manifests
    /\ cache_file = None
    /\ uuid_count = 0
    /\ created = <<>>
    /\ run = NoRun
    /\ last_end = None
    /\ packs = 0
    /\ edits = 0
    /\ disturbed = {}

\* Mutant: the cache manifest is written only after a successful run.
pack_finish_cache_on_success(r) ==
    /\ fs' = r.S.fs
    /\ cache_file' = IF r.ok THEN Some(r.S.map) ELSE cache_file
    /\ uuid_count' = r.S.uuid
    /\ created' = r.S.created
    /\ run' = [fresh |-> TRUE, ok |-> r.ok,
               err |-> IF r.ok THEN NoErr ELSE r.err,
               trace |-> r.S.trace,
               map |-> r.S.map,
               start |-> Snap(fs, manifest_file, cache_file),
               prev_end |-> last_end]
    /\ last_end' = Some([ok |-> r.ok,
                         snap |-> Snap(r.S.fs, manifest_file, Some(r.S.map))])
    /\ disturbed' = IF r.ok THEN disturbed ELSE disturbed \cup {"failed"}

\* Mutant: only the entries of assets the manifest defines are written.
pack_finish_pruned(r) ==
    /\ fs' = r.S.fs
    /\ cache_file' = Some([n \in DOMAIN r.S.map \cap DOMAIN manifest_file.assets
                            |-> r.S.map[n]])
    /\ uuid_count' = r.S.uuid
    /\ created' = r.S.created
    /\ run' = [fresh |-> TRUE, ok |-> r.ok,
               err |-> IF r.ok THEN NoErr ELSE r.err,
               trace |-> r.S.trace,
               map |-> r.S.map,
               start |-> Snap(fs, manifest_file, cache_file),
               prev_end |-> last_end]
    /\ last_end' = Some([ok |-> r.ok,
                         snap |-> Snap(r.S.fs, manifest_file, Some(r.S.map))])
    /\ disturbed' = IF r.ok THEN disturbed ELSE disturbed \cup {"failed"}

\* pack, after process_public_assets returned r: write the cache manifest
\* whatever the result, return the result.
pack_finish(r) ==
    /\ fs' = r.S.fs
    /\ cache_file' = Some(r.S.map)
    /\ uuid_count' = r.S.uuid
    /\ created' = r.S.created
    /\ run' = [fresh |-> TRUE, ok |-> r.ok,
               err |-> IF r.ok THEN NoErr ELSE r.err,
               trace |-> r.S.trace,
               map |-> r.S.map,
               start |-> Snap(fs, manifest_file, cache_file),
               prev_end |-> last_end]
    /\ last_end' = Some([ok |-> r.ok,
                         snap |-> Snap(r.S.fs, manifest_file, Some(r.S.map))])
    /\ disturbed' = IF r.ok THEN disturbed ELSE disturbed \cup {"failed"}

\* pack, when the recursion of process overflowed the stack: the program
\* ends there, what it did to the disk stays, the cache manifest is not
\* written and nothing is returned.  No pack call that returned precedes
\* the next one directly.
pack_aborted(r) ==
    /\ fs' = r.S.fs
    /\ uuid_count' = r.S.uuid
    /\ created' = r.S.created
    /\ run' = [NoRun EXCEPT !.err = r.err, !.trace = r.S.trace]
    /\ last_end' = None
    /\ disturbed' = disturbed \cup {"failed"}
    /\ UNCHANGED cache_file

\* pack, once process_public_assets is over with r.
pack_returned(r) ==
    IF ~r.ok /\ r.err.kind = "StackOverflow"
    THEN pack_aborted(r)
    ELSE pack_finish(r)

\* pack.
Pack ==
    /\ packs < MaxPacks
    /\ packs' = packs + 1
    /\ pack_returned(pack_result)
    /\ UNCHANGED <<manifest_file, edits>>

\* Bookkeeping shared by the outside changes: they happen between pack
\* calls, and the record of the last pack no longer describes the disk.
Edited ==
    /\ edits < MaxEdits
    /\ packs < MaxPacks
    /\ edits' = edits + 1
    /\ run' = NoRun
    /\ UNCHANGED packs

\* The user edits a source file.
EditSource ==
    \E f \in DOMAIN SourceBytes : \E bytes \in SourceBytes[f] :
        /\ read(fs, join(source_directory_path, f)) # bytes
        /\ fs' = write(fs, join(source_directory_path, f), bytes)
        /\ Edited
        /\ UNCHANGED <<manifest_file, cache_file, uuid_count, created, last_end,
                       disturbed>>

\* The user edits the manifest.
EditManifest ==
    \E m \in ManifestEdits(manifest_file) :
        /\ manifest_file' = m
        /\ Edited
        /\ UNCHANGED <<fs, cache_file, uuid_count, created, last_end,
                       disturbed>>

\* Something outside the engine deletes files of the internal directory.
DeleteInternalFile ==
    \E k \in FilesIn(fs, internal_directory_path) :
        /\ fs' = remove_file(fs, k)
        /\ disturbed' = disturbed \cup {"internal"}
        /\ Edited
        /\ UNCHANGED <<manifest_file, cache_file, uuid_count, created, last_end>>

\* remove_dir_all on the internal directory (with one file left it is
\* DeleteInternalFile).
DeleteInternalDirectory ==
    /\ Cardinality(FilesIn(fs, internal_directory_path)) > 1
    /\ fs' = [k \in DOMAIN fs \ FilesIn(fs, internal_directory_path) |-> fs[k]]
    /\ disturbed' = disturbed \cup {"internal"}
    /\ Edited
    /\ UNCHANGED <<manifest_file, cache_file, uuid_count, created, last_end>>

\* Something outside the engine deletes files of the target directory.
DeleteTargetFile ==
    \E k \in FilesIn(fs, target_directory_path) :
        /\ fs' = remove_file(fs, k)
        /\ disturbed' = disturbed \cup {"target"}
        /\ Edited
        /\ UNCHANGED <<manifest_file, cache_file, uuid_count, created, last_end>>

Next ==
    \/ Pack
    \/ EditSource
    \/ EditManifest
    \/ DeleteInternalFile
    \/ DeleteInternalDirectory
    \/ DeleteTargetFile

Spec == Init /\ [][Next]_vars

\* ------------------------------------------------------------ type check

TypeOK ==
    /\ uuid_count \in Nat
    /\ packs \in 0..MaxPacks
    /\ edits \in 0..MaxEdits
    /\ manifest_file \in Manifests
    /\ run.fresh \in BOOLEAN
    /\ disturbed \subseteq {"internal", "target", "failed"}

\* ------------------------------------------- vocabulary of the properties

\* The state right after a pack call, and after a successful one.
AfterPack == run.fresh
Succeeded == run.fresh /\ run.ok

\* The cache map as persisted, and as loaded at the start of the last pack.
cache_map == load_cache_manifest(cache_file)
BeforeMap == load_cache_manifest(run.start.cache)

\* The state at the end of the pack before the last one.
HasPrev == run.fresh /\ IsSome(run.prev_end)
Prev == Unwrap(run.prev_end).snap
PrevMap == load_cache_manifest(Prev.cache)

\* The last two pack calls both succeeded.
TwoRuns == Succeeded /\ HasPrev /\ Unwrap(run.prev_end).ok

\* What happened between the last two pack calls.
CachePreserved == run.start.cache = Prev.cache
ManifestSame == run.start.manifest = Prev.manifest
InternalUntouched ==
    DirContents(run.start.fs, internal_directory_path)
        = DirContents(Prev.fs, internal_directory_path)
TargetUntouched ==
    DirContents(run.start.fs, target_directory_path)
        = DirContents(Prev.fs, target_directory_path)
SourcesChanged ==
    {f \in DOMAIN SourceBytes :
        read(run.start.fs, join(source_directory_path, f))
            # read(Prev.fs, join(source_directory_path, f))}

\* The events of the last pack.
Events(ev) == {e \in {run.trace[i] : i \in DOMAIN run.trace} : e.ev = ev}

\* The assets reachable from name through input_names (name included).
RECURSIVE Reach(_, _)
Reach(m, name) ==
    IF name \notin DOMAIN m.assets THEN {name}
    ELSE {name} \cup
         UNION {Reach(m, m.assets[name].source.input_names[i]) :
                    i \in DOMAIN m.assets[name].source.input_names}

\* The assets a pack of manifest m processes.
Processed(m) ==
    UNION {Reach(m, m.public_assets[i]) : i \in DOMAIN m.public_assets}

\* The File assets of m whose source file is one of files.
FileAssetsOf(m, files) ==
    {n \in DOMAIN m.assets :
        m.assets[n].source.kind = "File" /\ m.assets[n].source.path \in files}

\* A filter applied to contents instead of files: the inputs are laid out
\* in a scratch directory and the registry is invoked on them.
ScratchPath(i) == <<"/", "scratch", ToString(i)>>
FilterBytes(filter_name, inputs, options) ==
    LET paths == [i \in DOMAIN inputs |-> ScratchPath(i)]
        f0 == [k \in {ScratchPath(i) : i \in DOMAIN inputs} |->
                    inputs[CHOOSE i \in DOMAIN inputs : ScratchPath(i) = k]]
        out == <<"/", "scratch", "out">>
    IN read(Unwrap(process_asset_file(f0, filter_name, paths, out, options)).fs,
            out)

\* The bytes a build of name from an empty cache produces.
RECURSIVE ScratchBytes(_, _, _)
ScratchBytes(m, f, name) ==
    IF m.assets[name].source.kind = "File"
    THEN read(f, join(source_directory_path, m.assets[name].source.path))
    ELSE FilterBytes(m.assets[name].source.filter_name,
            [i \in DOMAIN m.assets[name].source.input_names |->
                ScratchBytes(m, f, m.assets[name].source.input_names[i])],
            m.assets[name].source.options)

internal_path(entry) == join(internal_directory_path, entry.path)
target_path(entry) == join(target_directory_path, entry.path)

\* ------------------------------------------------------------- properties

\* C1: after two consecutive successful packs of the same manifest between
\* which exactly one source file changed, every processed asset that
\* depends on the File asset of that source is rebuilt in the second pack.
\* Rebuilt is read in the claim's favour: the path in the cache changed, or
\* at least a create for the asset succeeded in the second pack (the path
\* of an asset whose name contains a dot never changes, see C7).
C1_OneSourceChanged == TwoRuns /\ CachePreserved /\ ManifestSame
                       /\ Cardinality(SourcesChanged) = 1
C1_DependentsRebuilt ==
    C1_OneSourceChanged =>
        \A x \in Processed(manifest_file) :
            Reach(manifest_file, x) \cap FileAssetsOf(manifest_file, SourcesChanged) # {}
                => \/ cache_map[x].path # BeforeMap[x].path
                   \/ \E e \in Events("create") : e.name = x

\* C2: after every successful pack each public asset's published file holds
\* the bytes a build from an empty cache would give.
C2_PublishedBytesFromScratch ==
    Succeeded =>
        \A i \in DOMAIN manifest_file.public_assets :
            LET name == manifest_file.public_assets[i]
            IN /\ exists(fs, target_path(cache_map[name]))
               /\ read(fs, target_path(cache_map[name]))
                    = ScratchBytes(manifest_file, fs, name)

\* C3: a second pack with the same manifest, the same sources, the cache
\* kept and the internal directory untouched rebuilds nothing: every
\* process call returns changed = false and the cache map is unchanged.
C3_NothingToDo == TwoRuns /\ CachePreserved /\ ManifestSame
                  /\ SourcesChanged = {} /\ InternalUntouched
PublishedFilesOf(name) ==
    {k \in FilesIn(fs, target_directory_path) :
        \E i \in DOMAIN created :
            created[i].name = name
            /\ FsKey(join(target_directory_path, created[i].path)) = k}
C4_OnePublishedFile ==
    Succeeded =>
        \A i \in DOMAIN manifest_file.public_assets :
            PublishedFilesOf(manifest_file.public_assets[i])
                = {FsKey(target_path(cache_map[manifest_file.public_assets[i]]))}
C4_Witness ==
    /\ Succeeded
    /\ \E e \in Events("rebuild") :
        /\ \E i \in DOMAIN manifest_file.public_assets :
                manifest_file.public_assets[i] = e.name
        /\ exists(run.start.fs, join(target_directory_path, e.path))
        /\ cache_map[e.name].path # e.path

\* C5: when the internal file of a cached entry is deleted between two
\* successful packs and the cache is kept, the second pack replaces the
\* entry by one with a different path whose internal file exists.  Stated
\* for the entries the second pack processes.
DeletedEntries ==
    {n \in DOMAIN PrevMap :
        /\ exists(Prev.fs, internal_path(PrevMap[n]))
        /\ ~exists(run.start.fs, internal_path(PrevMap[n]))}
C5_DeletedIntermediateRebuilt ==
    (TwoRuns /\ CachePreserved) =>
        \A n \in DeletedEntries \cap Processed(manifest_file) :
            /\ cache_map[n].path # PrevMap[n].path
            /\ exists(fs, internal_path(cache_map[n]))

\* C6: after a successful pack, the old internal file and the old target
\* file of every entry the pack rebuilt are gone.
C6_OldFilesGone ==
    Succeeded =>
        \A e \in Events("rebuild") :
            /\ ~exists(fs, join(internal_directory_path, e.path))
            /\ ~exists(fs, join(target_directory_path, e.path))

\* C7: any two successful create calls for the same asset name, in the same
\* pack or in different packs over the same cache, give distinct paths.
C7_CreatedPathsDistinct ==
    \A i, j \in DOMAIN created :
        (i # j /\ created[i].name = created[j].name)
            => created[i].path # created[j].path

\* C8: when exactly one source file changed between two successful packs of
\* the same manifest, with the cache and the internal directory kept, every
\* cached asset that does not depend on the File asset of that source keeps
\* its entry, no create is run for it, and its internal file is as it was.
C8_OneSourceChanged == C1_OneSourceChanged /\ InternalUntouched
Unrelated ==
    {x \in DOMAIN BeforeMap \cap DOMAIN manifest_file.assets :
        Reach(manifest_file, x)
            \cap FileAssetsOf(manifest_file, SourcesChanged) = {}}
C8_UnrelatedUntouched ==
    C8_OneSourceChanged =>
        \A x \in Unrelated :
            /\ cache_map[x] = BeforeMap[x]
            /\ \A e \in Events("create") \cup Events("rebuild") : e.name # x
            /\ exists(fs, internal_path(BeforeMap[x]))
                    = exists(run.start.fs, internal_path(BeforeMap[x]))
            /\ exists(fs, internal_path(BeforeMap[x]))
                => read(fs, internal_path(BeforeMap[x]))
                        = read(run.start.fs, internal_path(BeforeMap[x]))
C8_Witness ==
    /\ C8_OneSourceChanged
    /\ Events("rebuild") # {}
    /\ \E x \in Unrelated \cap Processed(manifest_file) :
            exists(fs, internal_path(BeforeMap[x]))

\* C9: the copy to the target directory is made also when process returned
\* changed = false: a published file deleted from the target directory
\* while manifest, sources, cache and internal directory stay as they were
\* is back, at the same path and with the same bytes, after the next
\* successful pack, and the asset is not rebuilt.
LostTargets ==
    {i \in DOMAIN manifest_file.public_assets :
        /\ manifest_file.public_assets[i] \in DOMAIN PrevMap
        /\ exists(Prev.fs, target_path(PrevMap[manifest_file.public_assets[i]]))
        /\ ~exists(run.start.fs,
                   target_path(PrevMap[manifest_file.public_assets[i]]))}
C9_PublishUnconditional ==
    C3_NothingToDo =>
        \A i \in LostTargets :
            LET name == manifest_file.public_assets[i]
            IN /\ cache_map[name] = PrevMap[name]
               /\ \E e \in Events("publish") : e.name = name /\ ~e.changed
               /\ exists(fs, target_path(PrevMap[name]))
               /\ read(fs, target_path(PrevMap[name]))
                    = read(Prev.fs, target_path(PrevMap[name]))
C9_Witness == C3_NothingToDo /\ LostTargets # {}

\* C10: a pack run right after another pack, with nothing changed in
\* between, leaves the internal and the target directory as the first
\* pack left them.
BackToBack == HasPrev /\ run.start = Prev
C10_PackIdempotentOnDisk ==
    BackToBack =>
        /\ DirContents(fs, internal_directory_path)
                = DirContents(Prev.fs, internal_directory_path)
        /\ DirContents(fs, target_directory_path)
                = DirContents(Prev.fs, target_directory_path)
C10_Witness ==
    /\ BackToBack
    /\ Succeeded
    /\ FilesIn(fs, target_directory_path) # {}
    /\ Cardinality(FilesIn(fs, internal_directory_path)) >= 4

\* The call of process that the return logged at position k belongs to: the
\* last call for the same name before it (calls for one name do not nest
\* in an acyclic manifest).
CallOf(k) ==
    CHOOSE j \in 1..k :
        /\ run.trace[j].ev = "process_call"
        /\ run.trace[j].name = run.trace[k].name
        /\ \A i \in (j + 1)..k :
                ~(run.trace[i].ev = "process_call"
                  /\ run.trace[i].name = run.trace[k].name)
Returns == {k \in DOMAIN run.trace : run.trace[k].ev = "process_ret"}

\* A create for the name of the return at k succeeded during its call and
\* gave the entry path it returned.
CreatedDuring(k) ==
    \E j \in CallOf(k)..k :
        /\ run.trace[j].ev = "create"
        /\ run.trace[j].name = run.trace[k].name
        /\ run.trace[j].path = run.trace[k].path

\* C11: whenever process(name) returns (entry, changed), the map holds
\* entry for name; changed is true exactly when a create of this call made
\* the entry; and when changed is false, entry is what the map held for
\* name when the call started and the map still holds it.
C11_ProcessContract ==
    AfterPack =>
        \A k \in Returns :
            /\ run.trace[k].held = run.trace[k].entry
            /\ run.trace[k].changed <=> CreatedDuring(k)
            /\ ~run.trace[k].changed
                => /\ run.trace[CallOf(k)].held = run.trace[k].entry
                   /\ run.trace[k].held = run.trace[CallOf(k)].held
C11_Witness ==
    /\ AfterPack
    /\ \E k \in Returns :
            run.trace[k].changed /\ IsSome(run.trace[CallOf(k)].held)
    /\ \E k \in Returns :
            run.trace[k].changed /\ ~IsSome(run.trace[CallOf(k)].held)
    /\ \E k \in Returns : ~run.trace[k].changed

\* The last pack failed.
Failed == run.fresh /\ ~run.ok

\* The calls of process that had not returned when the pack ended: the
\* chain of calls the error went up through.
Pending ==
    {j \in DOMAIN run.trace :
        /\ run.trace[j].ev = "process_call"
        /\ \A k \in (j + 1)..Len(run.trace) :
                ~(run.trace[k].ev = "process_ret"
                  /\ run.trace[k].name = run.trace[j].name)}

\* The returns of process that installed an entry and were not followed by
\* another installation for the same name.
Installed ==
    {k \in Returns :
        /\ run.trace[k].changed
        /\ \A i \in (k + 1)..Len(run.trace) :
                ~(i \in Returns /\ run.trace[i].changed
                  /\ run.trace[i].name = run.trace[k].name)}

\* C12: after a failed pack, the map holds for the name of every call that
\* failed what it held when the call started (nothing when it held
\* nothing), and every entry a call installed before the failure is in the
\* map with its internal file on disk.
C12_NoInstallNoRollback ==
    Failed =>
        /\ \A j \in Pending :
                IF IsSome(run.trace[j].held)
                THEN /\ run.trace[j].name \in DOMAIN run.map
                     /\ run.map[run.trace[j].name] = Unwrap(run.trace[j].held)
                ELSE run.trace[j].name \notin DOMAIN run.map
        /\ \A k \in Installed :
                /\ run.trace[k].name \in DOMAIN run.map
                /\ run.map[run.trace[k].name] = Unwrap(run.trace[k].entry)
                /\ exists(fs, internal_path(Unwrap(run.trace[k].entry)))
C12_Witness ==
    /\ Failed
    /\ \E j \in Pending :
            /\ ~IsSome(run.trace[j].held)
            /\ run.trace[j].name \in DOMAIN manifest_file.assets
    /\ Cardinality(Installed) >= 2

\* C13: a failed pack has written the cache manifest file, the file holds
\* the map as the failure left it, so every entry installed before the
\* failure, and pack returned the error of the processing.
C13_CacheWrittenOnFailure ==
    Failed =>
        /\ IsSome(cache_file)
        /\ Unwrap(cache_file) = run.map
        /\ \A k \in Installed :
                /\ run.trace[k].name \in DOMAIN cache_map
                /\ cache_map[run.trace[k].name] = Unwrap(run.trace[k].entry)
        /\ run.err # NoErr
C13_Witness ==
    /\ Failed
    /\ run.start.cache = None
    /\ Installed # {}
    /\ IsSome(cache_file)

\* C14, as the specification states it: when pack fails because an input
\* name is absent from manifest.assets, the cache manifest file is as it
\* was before the run (absent when it was absent).
MissingAssetFailure ==
    Failed /\ run.err.kind = "AssetNotFoundInManifestError"
C14_CacheFileUntouched ==
    MissingAssetFailure => cache_file = run.start.cache

\* C14, amended: such a pack writes the cache manifest file; the file holds
\* the loaded map with the entries installed before the failure put in,
\* and nothing else.
InstalledNames == {run.trace[k].name : k \in Installed}
C14_CacheFileHoldsProgress ==
    MissingAssetFailure =>
        /\ IsSome(cache_file)
        /\ DOMAIN cache_map = DOMAIN BeforeMap \cup InstalledNames
        /\ \A k \in Installed :
                cache_map[run.trace[k].name] = Unwrap(run.trace[k].entry)
        /\ \A n \in DOMAIN BeforeMap \ InstalledNames :
                cache_map[n] = BeforeMap[n]
C14_Witness ==
    /\ MissingAssetFailure
    /\ run.err.name = "c"
    /\ IsSome(run.start.cache)
    /\ InstalledNames # {}
    /\ DOMAIN BeforeMap \ InstalledNames # {}
    /\ cache_file # run.start.cache

\* C15: when a name that is processed (a public asset, or an input during a
\* create or a freshness check) is absent from manifest.assets, the pack
\* fails with AssetNotFoundInManifestError carrying that name.
AbsentCalls ==
    {e \in Events("process_call") : e.name \notin DOMAIN manifest_file.assets}
C15_AbsentNameReported ==
    AfterPack =>
        \A e \in AbsentCalls :
            /\ ~run.ok
            /\ run.err.kind = "AssetNotFoundInManifestError"
            /\ run.err.name = e.name
\* The absent name is met in the freshness check of a cached asset that
\* still names it, and has itself a cached entry.
C15_Witness ==
    /\ Failed
    /\ \E e \in AbsentCalls : IsSome(e.held)
    /\ \E j \in Pending :
            /\ run.trace[j].name \in DOMAIN manifest_file.assets
            /\ IsSome(run.trace[j].held)
            /\ Unwrap(run.trace[j].held).data
                    = manifest_file.assets[run.trace[j].name]

\* C16: a Filtered asset whose filter is not registered cannot be created:
\* the pack that processes it fails with AssetFilterNotFoundError carrying
\* the filter name, which is not a FilterError.  The registry hands back
\* what a registered filter returned; when that is an error, no entry is
\* created and the pack fails with that error; when it is Ok, the create
\* goes on to return its entry.
UnregisteredCalls ==
    {e \in Events("process_call") :
        /\ e.name \in DOMAIN manifest_file.assets
        /\ manifest_file.assets[e.name].source.kind = "Filtered"
        /\ manifest_file.assets[e.name].source.filter_name \notin filters}
FilterRuns == {k \in DOMAIN run.trace : run.trace[k].ev = "filter"}
C16_FilterErrors ==
    AfterPack =>
        /\ \A e \in UnregisteredCalls :
                /\ ~run.ok
                /\ run.err.kind = "AssetFilterNotFoundError"
                /\ run.err.kind # "FilterError"
                /\ run.err.name = manifest_file.assets[e.name].source.filter_name
        /\ \A n \in filters :
                \A ins \in {<<join(source_directory_path, <<"a.txt">>)>>,
                             <<join(source_directory_path, <<"none">>)>>} :
                    process_asset_file(fs, n, ins, ScratchPath(0), NoOptions)
                        = Some(filter_process_asset_file(fs, n, ins,
                                    ScratchPath(0), NoOptions))
        /\ \A k \in FilterRuns :
                IF run.trace[k].changed
                THEN /\ k < Len(run.trace)
                     /\ run.trace[k + 1].ev = "create"
                     /\ run.trace[k + 1].name = run.trace[k].name
                ELSE /\ k = Len(run.trace)
                     /\ ~run.ok
                     /\ run.err.kind \in {"FilterError", "IOError"}
                     /\ run.err.name = run.trace[k].name
C16_Witness ==
    /\ Failed
    /\ UnregisteredCalls # {}
    /\ run.err.kind = "AssetFilterNotFoundError"
    /\ run.err.name = "Nope"
\* The other case of C16: a registered filter returned an error.
C16_FilterErrorReached ==
    /\ Failed
    /\ run.err.kind = "FilterError"
    /\ \E k \in FilterRuns : ~run.trace[k].changed

\* Lexical resolution of "." and ".." in a relative path: a ".." with
\* nothing before it to remove is kept.
RECURSIVE LexNormalize(_, _)
LexNormalize(done, rest) ==
    IF rest = <<>> THEN done
    ELSE IF Head(rest) = "." THEN LexNormalize(done, Tail(rest))
    ELSE IF Head(rest) = ".."
         THEN LexNormalize(IF done # <<>> /\ done[Len(done)] # ".."
                           THEN Front(done) ELSE Append(done, ".."),
                           Tail(rest))
    ELSE LexNormalize(Append(done, Head(rest)), Tail(rest))

\* The path has a root component or leaves its root.
Escapes(p) == has_root(p) \/ IsPrefix(<<"..">>, LexNormalize(<<>>, p))

\* The processed assets whose composed output path escapes (the UUID does
\* not matter for that).
EscapingCalls ==
    {e \in Events("process_call") :
        /\ e.name \in DOMAIN manifest_file.assets
        /\ Escapes(output_path_of(manifest_file.assets[e.name], e.name, 0))}

\* The files outside the internal and the target directory.
Outside(f) ==
    [k \in DOMAIN f \ (FilesIn(f, internal_directory_path)
                        \cup FilesIn(f, target_directory_path)) |-> f[k]]

\* C17: a pack that processes an asset whose composed output path has a
\* root or escapes its root fails with AssetPathError, and leaves every
\* file outside the internal and the target directory as it was.
C17_EscapeRejected ==
    (AfterPack /\ EscapingCalls # {}) =>
        /\ ~run.ok
        /\ run.err.kind = "AssetPathError"
        /\ Outside(fs) = Outside(run.start.fs)

\* The number of process calls that are open when the event at k is logged.
Depth(k) ==
    Cardinality({j \in 1..(k - 1) : run.trace[j].ev = "process_call"})
        - Cardinality({j \in 1..(k - 1) : run.trace[j].ev = "process_ret"})

\* The i-th smallest element of a set of positions.
Nth(P, i) == CHOOSE x \in P : Cardinality({y \in P : y < x}) = i - 1

\* The calls process_public_assets makes, and its copies.
TopCalls ==
    {k \in DOMAIN run.trace :
        run.trace[k].ev = "process_call" /\ Depth(k) = 0}
Publishes == {k \in DOMAIN run.trace : run.trace[k].ev = "publish"}

\* The calls of process made directly by the call at c, up to position k.
ChildCalls(c, k) ==
    {j \in (c + 1)..(k - 1) :
        run.trace[j].ev = "process_call" /\ Depth(j) = Depth(c) + 1}

\* The return of the call at j.
RetOf(j) ==
    CHOOSE k \in j..Len(run.trace) :
        /\ run.trace[k].ev = "process_ret"
        /\ run.trace[k].name = run.trace[j].name
        /\ \A i \in j..(k - 1) :
                ~(run.trace[i].ev = "process_ret"
                  /\ run.trace[i].name = run.trace[j].name)

\* The call of process during which the event at k was logged for its own
\* asset.
OwnCall(k) ==
    CHOOSE j \in 1..k :
        /\ run.trace[j].ev = "process_call"
        /\ run.trace[j].name = run.trace[k].name
        /\ \A i \in (j + 1)..k :
                ~(run.trace[i].ev = "process_call"
                  /\ run.trace[i].name = run.trace[k].name)

\* C18: in a pack the i-th call made by process_public_assets is for the
\* i-th public asset and its copy is made before the next call; in a
\* create of a Filtered asset the last calls made before the filter runs
\* are for its input_names in order, and the filter gets the paths of the
\* entries they returned in that order.
C18_DeclarationOrder ==
    AfterPack =>
        /\ Cardinality(Publishes) <= Cardinality(TopCalls)
        /\ Cardinality(TopCalls) <= Cardinality(Publishes) + 1
        /\ Cardinality(TopCalls) <= Len(manifest_file.public_assets)
        /\ run.ok => Cardinality(Publishes) = Len(manifest_file.public_assets)
        /\ \A i \in 1..Cardinality(TopCalls) :
                /\ run.trace[Nth(TopCalls, i)].name
                        = manifest_file.public_assets[i]
                /\ i > 1 => Nth(Publishes, i - 1) < Nth(TopCalls, i)
        /\ \A i \in 1..Cardinality(Publishes) :
                /\ run.trace[Nth(Publishes, i)].name
                        = manifest_file.public_assets[i]
                /\ Nth(TopCalls, i) < Nth(Publishes, i)
        /\ \A k \in FilterRuns :
                LET names == manifest_file.assets[run.trace[k].name].source.input_names
                    calls == ChildCalls(OwnCall(k), k)
                    skip == Cardinality(calls) - Len(names)
                IN /\ skip >= 0
                   /\ Len(run.trace[k].inputs) = Len(names)
                   /\ \A i \in DOMAIN names :
                        /\ run.trace[Nth(calls, skip + i)].name = names[i]
                        /\ run.trace[k].inputs[i]
                            = join(internal_directory_path,
                                   run.trace[RetOf(Nth(calls, skip + i))].path)
C18_Witness ==
    /\ Succeeded
    /\ Cardinality(Publishes) >= 2
    /\ \E k \in FilterRuns :
            /\ Len(run.trace[k].inputs) >= 2
            /\ run.trace[k].inputs[1] # run.trace[k].inputs[2]
            /\ Cardinality(ChildCalls(OwnCall(k), k)) > Len(run.trace[k].inputs)

\* The rebuilds of the last pack that were decided by the freshness check
\* over the inputs: the asset is Filtered, the entry the map held had the
\* data of the manifest and its internal file was there when process was
\* called for it.
Rebuilds == {k \in DOMAIN run.trace : run.trace[k].ev = "rebuild"}
InputRebuilds ==
    {k \in Rebuilds :
        LET held == run.trace[OwnCall(k)].held
        IN /\ IsSome(held)
           /\ Unwrap(held).data.source.kind = "Filtered"
           /\ Unwrap(held).data = manifest_file.assets[run.trace[k].name]
           /\ exists(Unwrap(run.trace[OwnCall(k)].at).fs,
                     internal_path(Unwrap(held)))}

\* The names of the calls at the positions P, in order.
NamesOf(P) == [i \in 1..Cardinality(P) |-> run.trace[Nth(P, i)].name]

\* C19: the freshness check of such an entry processes the inputs in order
\* up to the first that reports changed; the create that follows processes
\* all of them; what the checked inputs installed stays in the map and on
\* disk.
C19_CheckStopsAtFirstChange ==
    AfterPack =>
        \A k \in InputRebuilds :
            LET names == Unwrap(run.trace[OwnCall(k)].held).data.source.input_names
                calls == ChildCalls(OwnCall(k), k)
                checked == Cardinality(calls) - Len(names)
            IN /\ checked \in 1..Len(names)
               /\ NamesOf(calls) = SubSeq(names, 1, checked) \o names
               /\ \A i \in 1..(checked - 1) :
                    ~run.trace[RetOf(Nth(calls, i))].changed
               /\ run.trace[RetOf(Nth(calls, checked))].changed
               /\ run.map[names[checked]]
                    = Unwrap(run.trace[RetOf(Nth(calls, checked))].entry)
               /\ exists(fs, internal_path(run.map[names[checked]]))
C19_Witness ==
    /\ AfterPack
    /\ \E k \in InputRebuilds :
            LET names == Unwrap(run.trace[OwnCall(k)].held).data.source.input_names
            IN /\ Len(names) >= 2
               /\ Cardinality(ChildCalls(OwnCall(k), k)) = Len(names) + 1
               /\ names[1] # names[2]

\* C20: every key of the cache map is the name of its entry: in the map a
\* pack ends with, in the persisted map, and in the map at every call and
\* return of process, whether the pack succeeded or failed.
ProcessEvents == Events("process_call") \cup Events("process_ret")
C20_KeyIsEntryName ==
    /\ \A k \in DOMAIN cache_map : cache_map[k].name = k
    /\ \A k \in DOMAIN run.map : run.map[k].name = k
    /\ \A e \in ProcessEvents :
            /\ IsSome(e.held) => Unwrap(e.held).name = e.name
            /\ IsSome(e.entry) => Unwrap(e.entry).name = e.name
C20_Witness ==
    /\ Failed
    /\ Cardinality(DOMAIN cache_map) >= 4
    /\ Installed # {}
    /\ \E e \in Events("process_ret") : ~e.changed

\* C21: every entry of the cache map has a path without a root component
\* that does not leave the internal directory after lexical resolution of
\* its dot segments.
C21_EntryPathsInside ==
    /\ \A n \in DOMAIN cache_map : ~Escapes(cache_map[n].path)
    /\ \A n \in DOMAIN run.map : ~Escapes(run.map[n].path)

\* C22: an entry installed by a pack has, when its source is File, the
\* digest of the bytes at its internal path, which are the bytes of the
\* source file, and no digest when its source is Filtered.
C22_FileHashOfCopy ==
    AfterPack =>
        \A k \in Installed :
            LET entry == Unwrap(run.trace[k].entry)
            IN IF entry.data.source.kind = "File"
               THEN /\ exists(fs, internal_path(entry))
                    /\ entry.file_hash
                        = Some(blake3(read(fs, internal_path(entry))))
                    /\ entry.file_hash
                        = Some(blake3(read(run.start.fs,
                                join(source_directory_path,
                                     entry.data.source.path))))
               ELSE entry.file_hash = None
C22_Witness ==
    /\ AfterPack
    /\ \E k \in Installed :
            /\ Unwrap(run.trace[k].entry).data.source.kind = "File"
            /\ IsSome(run.trace[OwnCall(k)].held)
            /\ Unwrap(run.trace[k].entry).file_hash
                    # Unwrap(run.trace[OwnCall(k)].held).file_hash
    /\ \E k \in Installed :
            Unwrap(run.trace[k].entry).data.source.kind = "Filtered"

\* C23: as long as nothing outside the engine has changed the internal
\* directory, every Filtered entry of the cache map has its file at
\* internal_directory/path, after successful and after failed packs.
MissingFiltered ==
    {n \in DOMAIN cache_map :
        /\ cache_map[n].data.source.kind = "Filtered"
        /\ ~exists(fs, internal_path(cache_map[n]))}
C23_FilteredFilesPresent ==
    "internal" \notin disturbed => MissingFiltered = {}

\* C24: a pack removes no key of the cache map, neither from the map it
\* works on nor from the persisted one, and an entry that was in the map
\* differs afterwards only when a process call of the pack installed a
\* newly created entry for its name; the same holds for every single
\* process call (what the map holds for the name at its return).
C24_NoKeyRemoved ==
    AfterPack =>
        /\ DOMAIN BeforeMap \subseteq DOMAIN run.map
        /\ DOMAIN BeforeMap \subseteq DOMAIN cache_map
        /\ \A n \in DOMAIN BeforeMap :
                cache_map[n] # BeforeMap[n]
                    => \E k \in Installed :
                        /\ run.trace[k].name = n
                        /\ Unwrap(run.trace[k].entry) = cache_map[n]
                        /\ CreatedDuring(k)
        /\ \A k \in Returns :
                /\ IsSome(run.trace[k].held)
                /\ run.trace[k].held # run.trace[CallOf(k)].held
                        => CreatedDuring(k)
C24_Witness ==
    /\ Succeeded
    /\ DOMAIN BeforeMap \ DOMAIN manifest_file.assets # {}
    /\ \E n \in DOMAIN BeforeMap : cache_map[n] # BeforeMap[n]
    /\ \E n \in DOMAIN BeforeMap \cap Processed(manifest_file) :
            cache_map[n] = BeforeMap[n]

EditedReturns ==
    {k \in Returns :
        /\ IsSome(run.trace[CallOf(k)].held)
        /\ Unwrap(run.trace[CallOf(k)].held).data
                # manifest_file.assets[run.trace[k].name]}
C26_DataFollowsManifest ==
    AfterPack =>
        /\ \A k \in Returns :
                /\ Unwrap(run.trace[k].entry).data
                        = manifest_file.assets[run.trace[k].name]
                /\ Unwrap(run.trace[k].held).data
                        = manifest_file.assets[run.trace[k].name]
        /\ \A k \in EditedReturns :
                /\ run.trace[k].changed
                /\ CreatedDuring(k)
                /\ \E r \in Rebuilds :
                        /\ CallOf(k) < r
                        /\ r < k
                        /\ run.trace[r].name = run.trace[k].name
C26_Witness ==
    /\ TwoRuns
    /\ CachePreserved
    /\ SourcesChanged = {}
    /\ InternalUntouched
    /\ TargetUntouched
    /\ \E k \in EditedReturns :
            /\ cache_map[run.trace[k].name].data
                    = manifest_file.assets[run.trace[k].name]
            /\ PrevMap[run.trace[k].name].data.source.options
                    # manifest_file.assets[run.trace[k].name].source.options

\* The calls that failed in a rebuild: the map held an entry whose internal
\* file was there when process was called and is gone now.
FailedRebuilds ==
    {j \in Pending :
        /\ IsSome(run.trace[j].held)
        /\ exists(Unwrap(run.trace[j].at).fs,
                  internal_path(Unwrap(run.trace[j].held)))
        /\ ~exists(fs, internal_path(Unwrap(run.trace[j].held)))}

\* The returns of the calls that found an entry without internal file.
StaleReturns ==
    {k \in Returns :
        /\ IsSome(run.trace[CallOf(k)].held)
        /\ ~exists(Unwrap(run.trace[CallOf(k)].at).fs,
                   internal_path(Unwrap(run.trace[CallOf(k)].held)))}

\* C27: a rebuild that failed after the old internal file was deleted
\* leaves the old entry in the map and in the persisted cache; a later
\* call of process that finds an entry without internal file rebuilds it,
\* whatever its data and its inputs.
C27_MissingFileIsStale ==
    AfterPack =>
        /\ \A j \in FailedRebuilds :
                /\ run.map[run.trace[j].name] = Unwrap(run.trace[j].held)
                /\ cache_map[run.trace[j].name] = Unwrap(run.trace[j].held)
        /\ \A k \in StaleReturns :
                /\ run.trace[k].changed
                /\ CreatedDuring(k)
                /\ exists(Unwrap(run.trace[k].at).fs,
                          internal_path(Unwrap(run.trace[k].entry)))
\* The pack before failed and left an entry without file, nothing touched
\* the internal directory, and this pack rebuilt the entry although its
\* data is as in the manifest and no input changed.
C27_Witness ==
    /\ Succeeded
    /\ HasPrev
    /\ ~Unwrap(run.prev_end).ok
    /\ CachePreserved
    /\ "internal" \notin disturbed
    /\ \E k \in StaleReturns :
            /\ Unwrap(run.trace[CallOf(k)].held).data
                    = manifest_file.assets[run.trace[k].name]
            /\ \A r \in Returns \ {k} : ~run.trace[r].changed

\* C28: as long as every pack has succeeded and nothing outside the engine
\* has changed the internal or the target directory, every file of the
\* two directories is at the path of an entry of the cache map.
Orphans(dir) ==
    {k \in FilesIn(fs, dir) :
        \A n \in DOMAIN cache_map :
            FsKey(join(dir, cache_map[n].path)) # k}
C28_NoOrphans ==
    disturbed = {} =>
        /\ Orphans(internal_directory_path) = {}
        /\ Orphans(target_directory_path) = {}
C28_Witness ==
    /\ disturbed = {}
    /\ packs = MaxPacks
    /\ Cardinality(DOMAIN created) >= 8
    /\ Rebuilds # {}
    /\ \E e \in Events("rebuild") :
            exists(run.start.fs, join(target_directory_path, e.path))
    /\ FilesIn(fs, target_directory_path) # {}

\* The paths the path-safety test is asked about: the output path create
\* would compose next for each asset of the manifest, the paths of the
\* cached entries (process_public_assets tests them), and the two forms
\* ../x and x/../../f.
CheckedPaths ==
    {output_path_of(manifest_file.assets[n], n, new_v4(uuid_count)) :
        n \in DOMAIN manifest_file.assets}
    \cup {cache_map[n].path : n \in DOMAIN cache_map}
    \cup {<<"..", "x">>, <<"x", "..", "..", "f">>}

\* C29: the path-safety test rejects every relative path whose lexically
\* normalized form begins with "..".
C29_TestRejectsEscapes ==
    \A p \in CheckedPaths :
        (~has_root(p) /\ IsPrefix(<<"..">>, LexNormalize(<<>>, p)))
            => path_rejected(p)

\* C30: in a successful pack no asset is created twice and no filter is
\* invoked twice for the same asset, however often the asset is processed.
Creates == {k \in DOMAIN run.trace : run.trace[k].ev = "create"}
CallsFor(name) ==
    {k \in DOMAIN run.trace :
        run.trace[k].ev = "process_call" /\ run.trace[k].name = name}
C30_CreatedAtMostOnce ==
    Succeeded =>
        /\ \A i, j \in Creates :
                run.trace[i].name = run.trace[j].name => i = j
        /\ \A i, j \in FilterRuns :
                run.trace[i].name = run.trace[j].name => i = j
C30_Witness ==
    /\ Succeeded
    /\ Len(manifest_file.public_assets) >= 2
    /\ \E k \in Creates :
            /\ Cardinality(CallsFor(run.trace[k].name)) >= 3
            /\ run.trace[k].name \in DOMAIN BeforeMap
    /\ Cardinality(FilterRuns) >= 2

\* The state process returned in at position k of the last pack, and the
\* result of calling process for the same name again in that state.
StateAt(k) ==
    [map |-> Unwrap(run.trace[k].at).map, fs |-> Unwrap(run.trace[k].at).fs,
     uuid |-> uuid_count, trace |-> <<>>, created |-> <<>>]
Again(k) == process(run.trace[k].name, manifest_file, StateAt(k))
SameAgain(k, r) ==
    /\ r.ok
    /\ ~r.val.changed
    /\ r.val.entry = Unwrap(run.trace[k].entry)
    /\ r.S.map = Unwrap(run.trace[k].at).map
    /\ r.S.fs = Unwrap(run.trace[k].at).fs

UnchangedReturns == {k \in Returns : ~run.trace[k].changed}

\* C32: a call of process that returns changed = false leaves the cache
\* map and the internal and target directories as they were when it was
\* called: between the call and its return nothing is created, rebuilt or
\* filtered.
C32_UnchangedCallChangesNothing ==
    AfterPack =>
        \A k \in UnchangedReturns :
            /\ Unwrap(run.trace[k].at).map
                    = Unwrap(run.trace[CallOf(k)].at).map
            /\ DirContents(Unwrap(run.trace[k].at).fs, internal_directory_path)
                    = DirContents(Unwrap(run.trace[CallOf(k)].at).fs,
                                  internal_directory_path)
            /\ DirContents(Unwrap(run.trace[k].at).fs, target_directory_path)
                    = DirContents(Unwrap(run.trace[CallOf(k)].at).fs,
                                  target_directory_path)
            /\ \A j \in CallOf(k)..k :
                    run.trace[j].ev \notin {"create", "rebuild", "filter"}
\* An unchanged return of a Filtered asset that processed its inputs, in a
\* pack that rebuilt another asset.
C32_Witness ==
    /\ AfterPack
    /\ Rebuilds # {}
    /\ \E k \in UnchangedReturns :
            /\ Unwrap(run.trace[k].entry).data.source.kind = "Filtered"
            /\ ChildCalls(CallOf(k), k) # {}

\* The input_names relation of a manifest, and the manifests in which no
\* asset is reached from its own inputs.
InputsOf(m, n) ==
    IF n \in DOMAIN m.assets
    THEN {m.assets[n].source.input_names[i] :
            i \in DOMAIN m.assets[n].source.input_names}
    ELSE {}
RECURSIVE Within(_, _, _)
Within(m, N, steps) ==
    IF steps = 0 THEN N
    ELSE Within(m, N \cup UNION {InputsOf(m, n) : n \in N}, steps - 1)
Acyclic(m) ==
    \A n \in DOMAIN m.assets :
        n \notin Within(m, InputsOf(m, n), Cardinality(DOMAIN m.assets))

\* The last pack did not return: the recursion overflowed the stack.
Aborted == run.err.kind = "StackOverflow"

\* The calls of process of the last pack with the number of calls pending
\* when each is made (D); the calls not yet returned when the call at k is
\* made, k included; the calls made directly by the call at c.
Calls == {k \in DOMAIN run.trace : run.trace[k].ev = "process_call"}
DepthOf == [k \in Calls |-> Depth(k)]
StackIn(D, k) ==
    {c \in Calls : c <= k /\ \A j \in Calls : (c < j /\ j <= k) => D[j] > D[c]}
ChildrenIn(D, c) ==
    {j \in Calls :
        /\ j > c
        /\ D[j] = D[c] + 1
        /\ \A i \in Calls : (c < i /\ i < j) => D[i] > D[c]}
Stack(k) == StackIn(DepthOf, k)
InputCount(m, n) ==
    IF n \in DOMAIN m.assets THEN Len(m.assets[n].source.input_names) ELSE 0

\* The calls pending at k are calls for different names, the call at k is
\* for an input of its caller, and it makes at most two direct calls per
\* input.
BoundedCall(D, k) ==
    /\ \A c, d \in StackIn(D, k) :
            run.trace[c].name = run.trace[d].name => c = d
    /\ \A c \in StackIn(D, k) :
            D[c] = D[k] - 1
                => run.trace[k].name
                        \in InputsOf(manifest_file, run.trace[c].name)
    /\ Cardinality(ChildrenIn(D, k))
            <= 2 * InputCount(manifest_file, run.trace[k].name)

\* C33: with a manifest whose input_names relation is acyclic, every pack
\* returns, with success or an error, from whatever the cache holds: the
\* calls of process not yet returned are calls for different names, each
\* an input of the one before, so there are never more of them than
\* assets; a call makes at most two direct calls per input, and
\* process_public_assets one per public asset.  A pack that does not return
\* has a name twice among the calls not yet returned.
C33_AcyclicTerminates ==
    /\ ((run.fresh \/ Aborted) /\ Acyclic(manifest_file)) =>
            /\ ~Aborted
            /\ LET D == DepthOf IN \A k \in Calls : BoundedCall(D, k)
            /\ Cardinality(TopCalls) <= Len(manifest_file.public_assets)
    /\ Aborted =>
            \E c, d \in Stack(Len(run.trace)) :
                c # d /\ run.trace[c].name = run.trace[d].name
\* A pack of an acyclic manifest that returned after three nested calls;
\* it found a cache written by an earlier pack, and the pack directly
\* before it had not returned.
C33_Witness ==
    /\ AfterPack
    /\ Acyclic(manifest_file)
    /\ IsSome(run.start.cache)
    /\ ~IsSome(run.prev_end)
    /\ \E k \in Calls : Cardinality(Stack(k)) >= 3
    /\ Rebuilds # {}
\* A pack of the cyclic manifest, started with a cache that holds mid and
\* out, does not return, and the internal file of mid is gone.
C33_CycleOverflows ==
    /\ Aborted
    /\ manifest_file = CyclicManifest
    /\ IsSome(cache_file)
    /\ "mid" \in DOMAIN cache_map
    /\ ~exists(fs, internal_path(cache_map["mid"]))

====
